---------------------------- MODULE Spec2Model ----------------------------
(***************************************************************************)
(* Model of the sheet -> Shopify product sync (MatiasLatte/nnc_test).      *)
(*                                                                         *)
(* The poll loop of GoogleSheetsClient.watch_for_changes reads the sheet,  *)
(* fingerprints the validated rows and, on the first load or on a changed  *)
(* fingerprint, calls sync_callback, which runs sync_sheets_to_shopify:    *)
(* one listing of the remote catalog, then one create or update per row.   *)
(*                                                                         *)
(* Cell values are sequences of one-character strings.  Floats are kept as *)
(* hundredths (the inputs enumerated here have at most two decimals).      *)
(***************************************************************************)
EXTENDS Integers, Sequences, FiniteSets, TLC

\* ------------------------------------------------------------------ bounds
MaxRows == 2

MaxCycles == 2

MaxRemote == 2

\* rows of a sheet when only the reader is exercised
MaxRowsRead == 3

\* length of the strings clean_price is applied to
MaxPriceLen == 3

HashMod == 65521

PageLimit == 250

\* main.py: the interval watch_for_changes is called with, in seconds
CHECK_INTERVAL == 30

\* ------------------------------------------------------- character helpers
Digits == {"0", "1", "2", "3", "4", "5", "6", "7", "8", "9"}

DigitVal(c) ==
    CASE c = "0" -> 0 [] c = "1" -> 1 [] c = "2" -> 2 [] c = "3" -> 3
      [] c = "4" -> 4 [] c = "5" -> 5 [] c = "6" -> 6 [] c = "7" -> 7
      [] c = "8" -> 8 [] c = "9" -> 9 [] OTHER -> 0

CharCode(c) ==
    CASE c = " " -> 32 [] c = "$" -> 36 [] c = "," -> 44 [] c = "." -> 46
      [] c \in Digits -> 48 + DigitVal(c)
      [] c = "A" -> 65 [] c = "B" -> 66 [] c = "X" -> 88
      [] c = "a" -> 97 [] c = "c" -> 99 [] c = "t" -> 116
      [] OTHER -> 63

RECURSIVE StripLeft(_)
StripLeft(s) ==
    IF s # <<>> /\ Head(s) = " " THEN StripLeft(Tail(s)) ELSE s

RECURSIVE StripRight(_)
StripRight(s) ==
    IF s # <<>> /\ s[Len(s)] = " " THEN StripRight(SubSeq(s, 1, Len(s) - 1)) ELSE s

\* str.strip()
Strip(s) == StripRight(StripLeft(s))

\* str.replace(c, '')
RECURSIVE Remove(_, _)
Remove(s, c) ==
    IF s = <<>> THEN <<>>
    ELSE IF Head(s) = c THEN Remove(Tail(s), c)
    ELSE <<Head(s)>> \o Remove(Tail(s), c)

\* lexicographic order of Python str comparison
RECURSIVE StrLess(_, _)
StrLess(a, b) ==
    IF b = <<>> THEN FALSE
    ELSE IF a = <<>> THEN TRUE
    ELSE IF CharCode(Head(a)) < CharCode(Head(b)) THEN TRUE
    ELSE IF CharCode(Head(a)) > CharCode(Head(b)) THEN FALSE
    ELSE StrLess(Tail(a), Tail(b))

RECURSIVE DigitsValue(_)
DigitsValue(s) ==
    IF s = <<>> THEN 0 ELSE DigitsValue(SubSeq(s, 1, Len(s) - 1)) * 10 + DigitVal(s[Len(s)])

AllDigits(s) == \A k \in 1..Len(s) : s[k] \in Digits

DotAt(s) == IF \E k \in 1..Len(s) : s[k] = "."
            THEN CHOOSE k \in 1..Len(s) : s[k] = "." /\ \A j \in 1..(k - 1) : s[j] # "."
            ELSE 0

\* float(s) on the alphabet of CharCode: digits with at most one point and at
\* least one digit; anything else raises ValueError (ok = FALSE).  The value
\* is in hundredths.
ParseFloat(raw) ==
    LET s == Strip(raw)
        d == DotAt(s)
        ip == IF d = 0 THEN s ELSE SubSeq(s, 1, d - 1)
        fp == IF d = 0 THEN <<>> ELSE SubSeq(s, d + 1, Len(s))
        ok == /\ AllDigits(ip) /\ AllDigits(fp)
              /\ Len(ip) + Len(fp) > 0
              /\ Len(fp) <= 2
        frac == IF Len(fp) = 0 THEN 0
                ELSE IF Len(fp) = 1 THEN DigitVal(fp[1]) * 10
                ELSE DigitsValue(fp)
    IN  IF ok THEN [ok |-> TRUE, val |-> DigitsValue(ip) * 100 + frac]
        ELSE [ok |-> FALSE, val |-> 0]

\* Mutant: the handler of clean_price is "except TypeError".
clean_price_except_TypeError(exc) == exc = "TypeError"

\* "except (ValueError, TypeError)" of clean_price
clean_price_except(exc) == exc \in {"ValueError", "TypeError"}

\* One call of clean_price: the value returned (in hundredths), or raised when
\* the ValueError of float() gets past the handler.
clean_price_call(price_value) ==
    IF price_value = <<>> THEN [raised |-> FALSE, val |-> 0]
    ELSE LET price_str == Remove(Remove(Remove(Strip(price_value), ","), " "), "$")
         IN  IF price_str = <<>> THEN [raised |-> FALSE, val |-> 0]
             ELSE IF ParseFloat(price_str).ok
                  THEN [raised |-> FALSE, val |-> ParseFloat(price_str).val]
             ELSE IF clean_price_except("ValueError") THEN [raised |-> FALSE, val |-> 0]
             ELSE [raised |-> TRUE, val |-> 0]

\* clean_price: 0.0 for empty or unparsable input
clean_price(price_value) == clean_price_call(price_value).val

\* f"{price:.2f}" as the pair (units, cents)
Format2f(h) == <<h \div 100, h % 100>>

\* int(float(weight)): the parse may raise, the int() truncates
WeightOk(w) == ParseFloat(w).ok

WeightInt(w) == ParseFloat(w).val \div 100

\* ---------------------------------------------------------- the source sheet
Row(p, pr, w, t, c) ==
    [part_no |-> p, price |-> pr, weight |-> w, tag |-> t, collection |-> c]

\* The rows a sheet may hold: A, A with an empty weight cell, B without a
\* price (as in the spec's scenario) and a row without part_no.
RawRows ==
    { Row(<<"A">>, <<"$", "1">>, <<"1", "0", "0">>, <<"t">>, <<"c">>),
      Row(<<"A">>, <<"$", "1">>, <<>>, <<"t">>, <<"c">>),
      Row(<<"B">>, <<>>, <<"5", "0">>, <<"t">>, <<"c">>),
      Row(<<>>, <<"$", "1">>, <<"1", "0", "0">>, <<"t">>, <<"c">>) }

Sheets == UNION { [1..n -> RawRows] : n \in 0..MaxRows }

\* More rows for the reader: a blank row, a part_no of spaces only, and a row
\* whose cells carry spaces around the values.
RawRowsRead ==
    RawRows \cup
    { Row(<<>>, <<>>, <<>>, <<>>, <<>>),
      Row(<<" ">>, <<"$", "1">>, <<"1", "0", "0">>, <<"t">>, <<"c">>),
      Row(<<" ", "B", " ">>, <<" ", "$", "1">>, <<"5", "0", " ">>, <<"t">>, <<"c">>) }

SheetsRead == UNION { [1..n -> RawRowsRead] : n \in 0..MaxRowsRead }

\* "not any(str(value).strip() for value in record.values())"
IsBlankRow(r) ==
    /\ Strip(r.part_no) = <<>> /\ Strip(r.price) = <<>> /\ Strip(r.weight) = <<>>
    /\ Strip(r.tag) = <<>> /\ Strip(r.collection) = <<>>

validate_product_record(record) == record.part_no # <<>>

\* One row of get_all_products: strip every value, add the row number
\* (row 1 holds the headers, so record k is row k + 1).
NormalizeRow(r, k) ==
    [part_no |-> Strip(r.part_no), price |-> Strip(r.price),
     weight |-> Strip(r.weight), tag |-> Strip(r.tag),
     collection |-> Strip(r.collection), row_number |-> k + 1]

\* Mutant: a rejected or raising row ends the batch.
RECURSIVE ProductsFrom_AbortBatch(_, _, _)
ProductsFrom_AbortBatch(records, k, raising) ==
    IF k > Len(records) THEN <<>>
    ELSE IF k \in raising THEN <<>>
    ELSE IF IsBlankRow(records[k]) THEN ProductsFrom_AbortBatch(records, k + 1, raising)
    ELSE IF ~validate_product_record(NormalizeRow(records[k], k)) THEN <<>>
    ELSE <<NormalizeRow(records[k], k)>> \o ProductsFrom_AbortBatch(records, k + 1, raising)

\* The loop of get_all_products from record k on.  raising holds the records
\* whose processing raises: the inner "except Exception: continue" drops them,
\* like the blank and the rejected ones.
RECURSIVE ProductsFrom(_, _, _)
ProductsFrom(records, k, raising) ==
    IF k > Len(records) THEN <<>>
    ELSE IF k \in raising THEN ProductsFrom(records, k + 1, raising)
    ELSE IF IsBlankRow(records[k]) THEN ProductsFrom(records, k + 1, raising)
    ELSE IF ~validate_product_record(NormalizeRow(records[k], k))
         THEN ProductsFrom(records, k + 1, raising)
    ELSE <<NormalizeRow(records[k], k)>> \o ProductsFrom(records, k + 1, raising)

\* get_all_products: [] when the read raises, else the rows that passed
ReadProducts(records, readOk, raising) ==
    IF ~readOk THEN <<>> ELSE ProductsFrom(records, 1, raising)

\* get_all_products when no single row raises
get_all_products(records, readOk) == ReadProducts(records, readOk, {})

\* ---------------------------------------------------------- change detector
\* sorted(current_data, key=part_no): stable, ascending
RECURSIVE InsertByPartNo(_, _)
InsertByPartNo(x, s) ==
    IF s = <<>> THEN <<x>>
    ELSE IF StrLess(x.part_no, Head(s).part_no) THEN <<x>> \o s
    ELSE <<Head(s)>> \o InsertByPartNo(x, Tail(s))

RECURSIVE SortedByPartNo(_)
SortedByPartNo(s) ==
    IF s = <<>> THEN <<>>
    ELSE InsertByPartNo(s[Len(s)], SortedByPartNo(SubSeq(s, 1, Len(s) - 1)))

Codes(s) == [k \in 1..Len(s) |-> CharCode(s[k])]

\* str(record): every key of the dict is printed, the row number included
ReprRecord(r) ==
    Codes(r.part_no) \o <<0>> \o Codes(r.price) \o <<0>> \o Codes(r.weight) \o <<0>>
      \o Codes(r.tag) \o <<0>> \o Codes(r.collection) \o <<0>> \o <<r.row_number>> \o <<1>>

RECURSIVE ReprList(_)
ReprList(s) == IF s = <<>> THEN <<>> ELSE ReprRecord(Head(s)) \o ReprList(Tail(s))

\* hash(str): a deterministic function of the text with finitely many values
RECURSIVE HashCodes(_)
HashCodes(s) ==
    IF s = <<>> THEN 7
    ELSE (HashCodes(SubSeq(s, 1, Len(s) - 1)) * 31 + s[Len(s)]) % HashMod

Fingerprint(current_data) == HashCodes(ReprList(SortedByPartNo(current_data)))

None == -1

\* ------------------------------------------------------- the remote catalog
Variant(vid, sku, price, weight) ==
    [id |-> vid, sku |-> sku, price |-> price, weight |-> weight]

Product(pid, title, ptype, tags, variants) ==
    [id |-> pid, title |-> title, product_type |-> ptype, tags |-> tags,
     variants |-> variants]

\* Catalogs the shop may hold when the program starts: empty, an entry for A,
\* and an entry whose second variant carries the SKU A.
InitRemotes ==
    { <<>>,
      << Product(1, <<"A">>, <<"c">>, <<"t">>,
                 << Variant(11, <<"A">>, Format2f(100), 100) >>) >>,
      << Product(1, <<"X">>, <<"c">>, <<"t">>,
                 << Variant(11, <<"X">>, Format2f(500), 5),
                    Variant(12, <<"A">>, Format2f(100), 100) >>) >> }

\* Outcome of one HTTP request: the expected 2xx, another status, or a
\* transport exception raised by requests.
Resp == {"ok", "err", "exc"}

\* GET products.json?limit=250: one page of the catalog
Listing(rem) == SubSeq(rem, 1, IF Len(rem) < PageLimit THEN Len(rem) ELSE PageLimit)

\* get_all_shopify_products: the listing on 200, [] on anything else
get_all_shopify_products(rem, status) ==
    IF status = "200" THEN Listing(rem) ELSE <<>>

ListStatus == {"200", "400", "401", "403", "500", "exc"}

HasSku(product, sku) ==
    \E v \in 1..Len(product.variants) : product.variants[v].sku = sku

\* Mutant: the last product with a variant of that SKU is taken.
find_product_by_sku_Last(sku, shopify_products) ==
    IF \E k \in 1..Len(shopify_products) : HasSku(shopify_products[k], sku)
    THEN CHOOSE k \in 1..Len(shopify_products) :
            /\ HasSku(shopify_products[k], sku)
            /\ \A j \in (k + 1)..Len(shopify_products) : ~HasSku(shopify_products[j], sku)
    ELSE 0

\* find_product_by_sku: index of the first product with a variant of that SKU,
\* 0 for None
find_product_by_sku(sku, shopify_products) ==
    IF \E k \in 1..Len(shopify_products) : HasSku(shopify_products[k], sku)
    THEN CHOOSE k \in 1..Len(shopify_products) :
            /\ HasSku(shopify_products[k], sku)
            /\ \A j \in 1..(k - 1) : ~HasSku(shopify_products[j], sku)
    ELSE 0

\* Index in the live catalog of the product with this id (0 if none)
IndexOfId(rem, pid) ==
    IF \E k \in 1..Len(rem) : rem[k].id = pid
    THEN CHOOSE k \in 1..Len(rem) : rem[k].id = pid
    ELSE 0

\* The remote system's handling of POST products.json
RemoteCreate(rem, part_no, price, weight, tag, collection) ==
    LET pid == Len(rem) + 1
    IN  Append(rem, Product(pid, part_no, collection, tag,
                            << Variant(10 * pid + 1, part_no, Format2f(price), weight) >>))

\* Mutant: the product update is applied to every entry of the catalog.
RemotePutProduct_All(rem, pid, part_no, tag, collection) ==
    [k \in 1..Len(rem) |->
        [rem[k] EXCEPT !.title = part_no, !.product_type = collection, !.tags = tag]]

\* The remote system's handling of PUT products/{id}.json
RemotePutProduct(rem, pid, part_no, tag, collection) ==
    [k \in 1..Len(rem) |->
        IF rem[k].id = pid
        THEN [rem[k] EXCEPT !.title = part_no, !.product_type = collection, !.tags = tag]
        ELSE rem[k]]

\* The remote system's handling of PUT variants/{id}.json
RemotePutVariant(rem, vid, part_no, price, weight) ==
    [k \in 1..Len(rem) |->
        [rem[k] EXCEPT !.variants =
            [v \in 1..Len(rem[k].variants) |->
                IF rem[k].variants[v].id = vid
                THEN Variant(vid, part_no, Format2f(price), weight)
                ELSE rem[k].variants[v]]]]

\* ---------------------------------------------------------- the local mirror
\* save_product_to_db: UPDATE ... WHERE part_no, INSERT when no row matched;
\* any database error is caught and the mirror is left as it was.
save_product_to_db(mir, product_data, shopify_id, dbOk) ==
    IF ~dbOk \/ ~WeightOk(product_data.weight) THEN mir
    ELSE { m \in mir : m.part_no # product_data.part_no } \cup
         { [part_no |-> product_data.part_no,
            price |-> clean_price(product_data.price),
            weight |-> WeightInt(product_data.weight),
            tag |-> product_data.tag, collection |-> product_data.collection,
            shopify_id |-> shopify_id] }

SaveTakesEffect(product_data, dbOk) == dbOk /\ WeightOk(product_data.weight)

\* ------------------------------------------------------------ the reconciler
\* What one iteration of the loop of sync_sheets_to_shopify did for a record:
\* the number of requests of each kind, their responses ("-" when not sent),
\* the calls of save_product_to_db and the upserts that took effect.
NoCalls(part_no) ==
    [part_no |-> part_no, outcome |-> "-",
     create |-> 0, createR |-> "-", get |-> 0, getR |-> "-",
     put |-> 0, putR |-> "-", vput |-> 0, vputR |-> "-",
     save |-> 0, upsert |-> 0]

Result(ret, rem, mir, entry) ==
    [ret |-> ret, remote |-> rem, mirror |-> mir, entry |-> entry]

\* Mutant: the mirror is written before the status of the response is looked at.
create_shopify_product_SaveFirst(sheet_row, rem, mir, createR, dbOk) ==
    LET e0 == NoCalls(sheet_row.part_no)
        price == clean_price(sheet_row.price)
    IN  IF ~WeightOk(sheet_row.weight) THEN Result("False", rem, mir, e0)
        ELSE LET e1 == [e0 EXCEPT !.create = 1, !.createR = createR, !.save = 1,
                                  !.upsert = IF SaveTakesEffect(sheet_row, dbOk)
                                             THEN 1 ELSE 0]
                 weight == WeightInt(sheet_row.weight)
                 rem1 == RemoteCreate(rem, sheet_row.part_no, price, weight,
                                      sheet_row.tag, sheet_row.collection)
                 mir1 == save_product_to_db(mir, sheet_row, Len(rem) + 1, dbOk)
             IN  IF createR = "ok" THEN Result("True", rem1, mir1, e1)
                 ELSE IF createR = "err" THEN Result("None", rem, mir1, e1)
                 ELSE Result("False", rem, mir1, e1)

\* create_shopify_product: True on 201, None on another status, False when
\* anything raises (the weight conversion before the request included)
create_shopify_product(sheet_row, rem, mir, createR, dbOk) ==
    LET e0 == NoCalls(sheet_row.part_no)
        price == clean_price(sheet_row.price)
    IN  IF ~WeightOk(sheet_row.weight) THEN Result("False", rem, mir, e0)
        ELSE LET e1 == [e0 EXCEPT !.create = 1, !.createR = createR]
                 weight == WeightInt(sheet_row.weight)
                 rem1 == RemoteCreate(rem, sheet_row.part_no, price, weight,
                                      sheet_row.tag, sheet_row.collection)
                 shopify_id == rem1[Len(rem1)].id
             IN  IF createR = "ok"
                 THEN Result("True", rem1,
                             save_product_to_db(mir, sheet_row, shopify_id, dbOk),
                             [e1 EXCEPT !.save = 1,
                                        !.upsert = IF SaveTakesEffect(sheet_row, dbOk)
                                                   THEN 1 ELSE 0])
                 ELSE IF createR = "err" THEN Result("None", rem, mir, e1)
                 ELSE Result("False", rem, mir, e1)

\* update_shopify_product: read the product for its first variant's id, PUT
\* the product, then PUT the variant; True only when all three answered 200
update_shopify_product(product_id, sheet_row, rem, mir, getR, putR, vputR, dbOk) ==
    LET e0 == NoCalls(sheet_row.part_no)
        price == clean_price(sheet_row.price)
    IN  IF ~WeightOk(sheet_row.weight) THEN Result("False", rem, mir, e0)
        ELSE LET weight == WeightInt(sheet_row.weight)
                 e1 == [e0 EXCEPT !.get = 1, !.getR = getR]
             IN  IF getR # "ok" THEN Result("False", rem, mir, e1)
                 ELSE LET current_product == rem[IndexOfId(rem, product_id)]
                          variant_id == current_product.variants[1].id
                          e2 == [e1 EXCEPT !.put = 1, !.putR = putR]
                          rem1 == RemotePutProduct(rem, product_id, sheet_row.part_no,
                                                   sheet_row.tag, sheet_row.collection)
                      IN  IF putR # "ok" THEN Result("False", rem, mir, e2)
                          ELSE LET e3 == [e2 EXCEPT !.vput = 1, !.vputR = vputR]
                                   rem2 == RemotePutVariant(rem1, variant_id,
                                                            sheet_row.part_no, price, weight)
                               IN  IF vputR # "ok" THEN Result("False", rem1, mir, e3)
                                   ELSE Result("True", rem2,
                                               save_product_to_db(mir, sheet_row,
                                                                  product_id, dbOk),
                                               [e3 EXCEPT !.save = 1,
                                                    !.upsert =
                                                       IF SaveTakesEffect(sheet_row, dbOk)
                                                       THEN 1 ELSE 0])

\* sheet_product.get('part_no', '')
part_no_of(sheet_product) ==
    IF "part_no" \in DOMAIN sheet_product THEN sheet_product.part_no ELSE <<>>

\* Mutant: a part_no the mirror already holds is not sent to the shop again.
SyncOne_MirrorFirst(sheet_product, listing, rem, mir, createR, getR, putR, vputR, dbOk) ==
    LET part_no == part_no_of(sheet_product)
        existing == find_product_by_sku(part_no, listing)
    IN  IF part_no = <<>> \/ \E m \in mir : m.part_no = part_no
        THEN Result("Skip", rem, mir, [NoCalls(part_no) EXCEPT !.outcome = "SKIP"])
        ELSE IF existing # 0
        THEN LET r == update_shopify_product(listing[existing].id, sheet_product,
                                             rem, mir, getR, putR, vputR, dbOk)
             IN  [r EXCEPT !.entry.outcome = IF r.ret = "True" THEN "UPDATE" ELSE "FAILED"]
        ELSE LET r == create_shopify_product(sheet_product, rem, mir, createR, dbOk)
             IN  [r EXCEPT !.entry.outcome = IF r.ret = "True" THEN "CREATE" ELSE "FAILED"]

\* The body of the loop of sync_sheets_to_shopify for one record: SKIP without
\* part_no, UPDATE when the listing has the SKU, CREATE otherwise.
SyncOne(sheet_product, listing, rem, mir, createR, getR, putR, vputR, dbOk) ==
    LET part_no == part_no_of(sheet_product)
        existing == find_product_by_sku(part_no, listing)
    IN  IF part_no = <<>>
        THEN Result("Skip", rem, mir, [NoCalls(part_no) EXCEPT !.outcome = "SKIP"])
        ELSE IF existing # 0
        THEN LET r == update_shopify_product(listing[existing].id, sheet_product,
                                             rem, mir, getR, putR, vputR, dbOk)
             IN  [r EXCEPT !.entry.outcome = IF r.ret = "True" THEN "UPDATE" ELSE "FAILED"]
        ELSE LET r == create_shopify_product(sheet_product, rem, mir, createR, dbOk)
             IN  [r EXCEPT !.entry.outcome = IF r.ret = "True" THEN "CREATE" ELSE "FAILED"]

\* -------------------------------------------------------------------- state
VARIABLES
    sheet,             \* the rows of the worksheet, as get_all_records returns them
    remote,            \* the shop's catalog
    mirror,            \* the products table
    pc,                \* where the poll loop is: "fetch", "sync", "loop", "sleep"
    last_data_hash,    \* watch_for_changes: fingerprint stored by the last cycle
    current_data,      \* watch_for_changes: rows read in this cycle
    current_hash,      \* watch_for_changes: their fingerprint
    shopify_products,  \* sync_sheets_to_shopify: the listing fetched for the pass
    list_status,       \* status of the listing request of the pass ("-" before it)
    i,                 \* sync_sheets_to_shopify: index of the next record
    counters,          \* sync_sheets_to_shopify: created, updated, failed, skipped
    log,               \* what the pass did for each record processed so far
    cycle,             \* number of poll cycles started
    callbacks,         \* calls of callback_function in this cycle
    cb_arg,            \* the list the callback was called with
    prev_data,         \* current_data of the cycle before
    hash_before,       \* last_data_hash when this cycle started
    failedPrev,        \* part numbers that ended FAILED in the cycle before
    read_ok,           \* FALSE when the last read of the worksheet raised
    slept,             \* argument of the last time.sleep of the loop (0: none yet)
    stop,              \* where a KeyboardInterrupt arrived ("-": none)
    exit_code,         \* argument of sys.exit (None while running)
    price_in,          \* clean_price: the value it is applied to
    price_out,         \* clean_price: how the call ended
    row_errors,        \* get_all_products: records whose processing raised
    first_pass         \* what the one-shot run before this one did (ran: there was one)

\* No one-shot run came before
NoPass == [ran |-> FALSE, list_status |-> "-", cb_arg |-> <<>>, log |-> <<>>]

\* what only the one-shot read and clean_price touch
pure == <<price_in, price_out, row_errors, first_pass>>

\* what the poll loop with sync_callback never touches
others == <<stop, exit_code, pure>>

vars == <<sheet, remote, mirror, pc, last_data_hash, current_data, current_hash,
          shopify_products, list_status, i, counters, log, cycle, callbacks,
          cb_arg, prev_data, hash_before, failedPrev, read_ok, slept, others>>

ZeroCounters == [created |-> 0, updated |-> 0, failed |-> 0, skipped |-> 0]

FailedIn(l) == { l[k].part_no : k \in { j \in 1..Len(l) : l[j].outcome = "FAILED" } }

Init ==
    /\ sheet \in Sheets
    /\ remote \in InitRemotes
    /\ mirror = {}
    /\ pc = "fetch"
    /\ last_data_hash = None
    /\ current_data = <<>>
    /\ current_hash = None
    /\ shopify_products = <<>>
    /\ list_status = "-"
    /\ i = 1
    /\ counters = ZeroCounters
    /\ log = <<>>
    /\ cycle = 0
    /\ callbacks = 0
    /\ cb_arg = <<>>
    /\ prev_data = <<>>
    /\ hash_before = None
    /\ failedPrev = {}
    /\ read_ok = TRUE
    /\ slept = 0
    /\ stop = "-"
    /\ exit_code = None
    /\ price_in = <<>>
    /\ price_out = "-"
    /\ row_errors = {}
    /\ first_pass = NoPass

\* Mutant: the first load is not treated as a change.
Changed_NoFirstLoad(last, h) == last # None /\ h # last

\* Mutant: only the first load is treated as a change.
Changed_FirstOnly(last, h) == last = None

\* The test of watch_for_changes: first load, or a fingerprint that differs
Changed(last, h) == last = None \/ h # last

\* watch_for_changes, top of the loop: read the sheet, fingerprint it and
\* either enter the callback or store the fingerprint and go to sleep.
Poll ==
    /\ pc = "fetch"
    /\ \E readOk \in BOOLEAN :
        LET data == get_all_products(sheet, readOk)
            h == Fingerprint(data)
            changed == Changed(last_data_hash, h)
        IN  /\ current_data' = data
            /\ current_hash' = h
            /\ callbacks' = IF changed THEN 1 ELSE 0
            /\ cb_arg' = IF changed THEN data ELSE <<>>
            /\ pc' = IF changed THEN "sync" ELSE "sleep"
            /\ last_data_hash' = IF changed THEN last_data_hash ELSE h
            /\ slept' = IF changed THEN slept ELSE CHECK_INTERVAL
            /\ read_ok' = readOk
    /\ cycle' = cycle + 1
    /\ prev_data' = current_data
    /\ hash_before' = last_data_hash
    /\ failedPrev' = FailedIn(log)
    /\ log' = <<>>
    /\ list_status' = "-"
    /\ shopify_products' = <<>>
    /\ i' = 1
    /\ counters' = ZeroCounters
    /\ UNCHANGED <<sheet, remote, mirror, others>>

\* sync_callback -> sync_sheets_to_shopify, up to the loop: zero the counters
\* and fetch the listing.
StartSync ==
    /\ pc = "sync"
    /\ \E status \in ListStatus :
        /\ list_status' = status
        /\ shopify_products' = get_all_shopify_products(remote, status)
    /\ counters' = ZeroCounters
    /\ i' = 1
    /\ pc' = "loop"
    /\ UNCHANGED <<sheet, remote, mirror, last_data_hash, current_data, current_hash,
                   log, cycle, callbacks, cb_arg, prev_data, hash_before, failedPrev,
                   read_ok, slept, others>>

\* Mutant: a skipped record is counted as failed.
Bump_SkipAsFailed(c, outcome) ==
    CASE outcome = "CREATE" -> [c EXCEPT !.created = @ + 1]
      [] outcome = "UPDATE" -> [c EXCEPT !.updated = @ + 1]
      [] OTHER -> [c EXCEPT !.failed = @ + 1]

\* Mutant: a failed record is not counted.
Bump_DropFailed(c, outcome) ==
    CASE outcome = "CREATE" -> [c EXCEPT !.created = @ + 1]
      [] outcome = "UPDATE" -> [c EXCEPT !.updated = @ + 1]
      [] outcome = "SKIP" -> [c EXCEPT !.skipped = @ + 1]
      [] OTHER -> c

Bump(c, outcome) ==
    CASE outcome = "CREATE" -> [c EXCEPT !.created = @ + 1]
      [] outcome = "UPDATE" -> [c EXCEPT !.updated = @ + 1]
      [] outcome = "SKIP" -> [c EXCEPT !.skipped = @ + 1]
      [] OTHER -> [c EXCEPT !.failed = @ + 1]

\* The path the loop body takes for a record
Path(sheet_product, listing) ==
    IF part_no_of(sheet_product) = <<>> THEN "skip"
    ELSE IF find_product_by_sku(part_no_of(sheet_product), listing) # 0 THEN "update"
    ELSE "create"

\* What the remote system and the database answer during one iteration, per
\* path.  A request that follows a failed one is never sent ("-"), and the
\* database is only reached after the last request succeeded.
Answer(path, createR, getR, putR, vputR, dbOk) ==
    [path |-> path, createR |-> createR, getR |-> getR, putR |-> putR,
     vputR |-> vputR, dbOk |-> dbOk]

Answers ==
    { Answer("skip", "-", "-", "-", "-", TRUE) }
    \cup { Answer("create", "ok", "-", "-", "-", d) : d \in BOOLEAN }
    \cup { Answer("create", r, "-", "-", "-", TRUE) : r \in Resp \ {"ok"} }
    \cup { Answer("update", "-", r, "-", "-", TRUE) : r \in Resp \ {"ok"} }
    \cup { Answer("update", "-", "ok", r, "-", TRUE) : r \in Resp \ {"ok"} }
    \cup { Answer("update", "-", "ok", "ok", r, TRUE) : r \in Resp \ {"ok"} }
    \cup { Answer("update", "-", "ok", "ok", "ok", d) : d \in BOOLEAN }

\* The cap on the growth of the catalog: up to MaxRemote entries, and for a
\* catalog of more than a page of the listing, MaxRemote entries on top of it.
Room(rem) ==
    \/ Len(rem) < MaxRemote
    \/ (Len(rem) > PageLimit /\ Len(rem) < PageLimit + 1 + MaxRemote)

\* One iteration of the loop of sync_sheets_to_shopify.
ProcessRecord ==
    /\ pc = "loop"
    /\ i <= Len(cb_arg)
    /\ \E a \in Answers :
        /\ a.path = Path(cb_arg[i], shopify_products)
        /\ (a.createR = "ok" => Room(remote))
        /\ LET r == SyncOne(cb_arg[i], shopify_products, remote, mirror,
                            a.createR, a.getR, a.putR, a.vputR, a.dbOk)
           IN  /\ remote' = r.remote
               /\ mirror' = r.mirror
               /\ log' = Append(log, r.entry)
               /\ counters' = Bump(counters, r.entry.outcome)
    /\ i' = i + 1
    /\ UNCHANGED <<sheet, pc, last_data_hash, current_data, current_hash,
                   shopify_products, list_status, cycle, callbacks, cb_arg,
                   prev_data, hash_before, failedPrev, read_ok, slept, others>>

\* Mutant: the callback returns while its pass is still running.
FinishSync_Async ==
    /\ pc = "loop"
    /\ last_data_hash' = current_hash
    /\ pc' = "sleep"
    /\ slept' = CHECK_INTERVAL
    /\ UNCHANGED <<sheet, remote, mirror, current_data, current_hash,
                   shopify_products, list_status, i, counters, log, cycle,
                   callbacks, cb_arg, prev_data, hash_before, failedPrev,
                   read_ok, others>>

\* Mutant: the fingerprint is not stored after the callback.
FinishSync_NoStore ==
    /\ pc = "loop"
    /\ i > Len(cb_arg)
    /\ pc' = "sleep"
    /\ slept' = CHECK_INTERVAL
    /\ UNCHANGED <<sheet, remote, mirror, last_data_hash, current_data, current_hash,
                   shopify_products, list_status, i, counters, log, cycle,
                   callbacks, cb_arg, prev_data, hash_before, failedPrev,
                   read_ok, others>>

\* The loop is over: sync_sheets_to_shopify returns the counters, sync_callback
\* prints them, and watch_for_changes stores the fingerprint and sleeps.
FinishSync ==
    /\ pc = "loop"
    /\ i > Len(cb_arg)
    /\ last_data_hash' = current_hash
    /\ pc' = "sleep"
    /\ slept' = CHECK_INTERVAL
    /\ UNCHANGED <<sheet, remote, mirror, current_data, current_hash,
                   shopify_products, list_status, i, counters, log, cycle,
                   callbacks, cb_arg, prev_data, hash_before, failedPrev,
                   read_ok, others>>

\* time.sleep(interval) is over
Wake ==
    /\ pc = "sleep"
    /\ cycle < MaxCycles
    /\ pc' = "fetch"
    /\ UNCHANGED <<sheet, remote, mirror, last_data_hash, current_data, current_hash,
                   shopify_products, list_status, i, counters, log, cycle,
                   callbacks, cb_arg, prev_data, hash_before, failedPrev,
                   read_ok, slept, others>>

\* Somebody edits the worksheet between two reads.
EditSheet ==
    /\ pc = "sleep"
    /\ cycle < MaxCycles
    /\ sheet' \in Sheets \ {sheet}
    /\ UNCHANGED <<remote, mirror, pc, last_data_hash, current_data, current_hash,
                   shopify_products, list_status, i, counters, log, cycle,
                   callbacks, cb_arg, prev_data, hash_before, failedPrev,
                   read_ok, slept, others>>

Next == Poll \/ StartSync \/ ProcessRecord \/ FinishSync \/ Wake \/ EditSheet

Spec == Init /\ [][Next]_vars

\* ------------------------------------------- the loop with any callback, stopped
\* Mutant: the handlers are "except BaseException".
except_BaseException(exc) == exc \in {"Exception", "KeyboardInterrupt"}

\* "except Exception" of watch_for_changes, sync_callback and the Shopify
\* client: KeyboardInterrupt derives from BaseException and passes through.
except_Exception(exc) == exc = "Exception"

\* Mutant: the fingerprint is stored although the callback raised.
CallbackRaises_Store ==
    /\ pc = "sync"
    /\ last_data_hash' = current_hash
    /\ pc' = "backoff"
    /\ slept' = CHECK_INTERVAL * 2
    /\ UNCHANGED <<sheet, remote, mirror, current_data, current_hash,
                   shopify_products, list_status, i, counters, log, cycle,
                   callbacks, cb_arg, prev_data, hash_before, failedPrev,
                   read_ok, others>>

\* callback_function is a parameter of watch_for_changes: one that raises
\* leaves the try block before the fingerprint is stored, and the handler
\* sleeps twice the interval.
CallbackRaises ==
    /\ pc = "sync"
    /\ except_Exception("Exception")
    /\ pc' = "backoff"
    /\ slept' = CHECK_INTERVAL * 2
    /\ UNCHANGED <<sheet, remote, mirror, last_data_hash, current_data, current_hash,
                   shopify_products, list_status, i, counters, log, cycle,
                   callbacks, cb_arg, prev_data, hash_before, failedPrev,
                   read_ok, others>>

\* time.sleep(interval * 2) is over
WakeBackoff ==
    /\ pc = "backoff"
    /\ cycle < MaxCycles
    /\ pc' = "fetch"
    /\ UNCHANGED <<sheet, remote, mirror, last_data_hash, current_data, current_hash,
                   shopify_products, list_status, i, counters, log, cycle,
                   callbacks, cb_arg, prev_data, hash_before, failedPrev,
                   read_ok, slept, others>>

\* run_continuous_monitoring: "except KeyboardInterrupt" prints and returns,
\* main then calls sys.exit(0)
Stopped(where) ==
    /\ pc' = "stopped"
    /\ stop' = where
    /\ exit_code' = 0

\* KeyboardInterrupt during time.sleep(interval), inside the try block: a
\* handler that catches it sleeps and goes on, otherwise it leaves the loop.
InterruptSleep ==
    /\ pc = "sleep"
    /\ stop = "-"
    /\ IF except_Exception("KeyboardInterrupt")
       THEN /\ pc' = "backoff"
            /\ stop' = "sleep"
            /\ slept' = CHECK_INTERVAL * 2
            /\ UNCHANGED exit_code
       ELSE /\ Stopped("sleep")
            /\ UNCHANGED slept
    /\ UNCHANGED <<sheet, remote, mirror, last_data_hash, current_data, current_hash,
                   shopify_products, list_status, i, counters, log, cycle,
                   callbacks, cb_arg, prev_data, hash_before, failedPrev,
                   read_ok, pure>>

\* KeyboardInterrupt during time.sleep(interval * 2), inside the handler: no
\* try block is around it.
InterruptBackoff ==
    /\ pc = "backoff"
    /\ stop = "-"
    /\ Stopped("backoff")
    /\ UNCHANGED <<sheet, remote, mirror, last_data_hash, current_data, current_hash,
                   shopify_products, list_status, i, counters, log, cycle,
                   callbacks, cb_arg, prev_data, hash_before, failedPrev,
                   read_ok, slept, pure>>

\* Where a KeyboardInterrupt may cut the processing of a record: before its
\* first request, after the POST came back, after the product PUT came back.
Cuts == {"before", "after_post", "after_put"}

\* What the record's iteration did up to the cut, when its requests were
\* answered with success.  Nothing after the cut runs: no variant PUT, no
\* save_product_to_db, no counter.  A weight that does not parse raises before
\* the first request, so only the cut "before" is left.
CutRecord(sheet_product, listing, rem, cut) ==
    LET part_no == sheet_product.part_no
        existing == find_product_by_sku(part_no, listing)
        e0 == [NoCalls(part_no) EXCEPT !.outcome = "INTERRUPTED"]
    IN  IF cut = "before" \/ ~WeightOk(sheet_product.weight)
        THEN [remote |-> rem, entry |-> e0]
        ELSE IF cut = "after_post" /\ existing = 0
        THEN [remote |-> RemoteCreate(rem, part_no, clean_price(sheet_product.price),
                                      WeightInt(sheet_product.weight),
                                      sheet_product.tag, sheet_product.collection),
              entry |-> [e0 EXCEPT !.create = 1, !.createR = "ok"]]
        ELSE IF cut = "after_put" /\ existing # 0
        THEN [remote |-> RemotePutProduct(rem, listing[existing].id, part_no,
                                          sheet_product.tag, sheet_product.collection),
              entry |-> [e0 EXCEPT !.get = 1, !.getR = "ok", !.put = 1, !.putR = "ok"]]
        ELSE [remote |-> rem, entry |-> e0]

\* KeyboardInterrupt while sync_sheets_to_shopify processes record i: none of
\* the "except Exception" handlers on the way up catches it.
InterruptRecord ==
    /\ pc = "loop"
    /\ i <= Len(cb_arg)
    /\ stop = "-"
    /\ ~except_Exception("KeyboardInterrupt")
    /\ \E cut \in Cuts :
        /\ (cut = "after_post" => Len(remote) < MaxRemote)
        /\ LET r == CutRecord(cb_arg[i], shopify_products, remote, cut)
           IN  /\ remote' = r.remote
               /\ log' = Append(log, r.entry)
    /\ Stopped("record")
    /\ UNCHANGED <<sheet, mirror, last_data_hash, current_data, current_hash,
                   shopify_products, list_status, i, counters, cycle,
                   callbacks, cb_arg, prev_data, hash_before, failedPrev,
                   read_ok, slept, pure>>

NextLoop ==
    \/ Next
    \/ CallbackRaises
    \/ WakeBackoff
    \/ InterruptSleep
    \/ InterruptBackoff
    \/ InterruptRecord

\* The loop starts against a shop that holds an entry for A
InitLoop ==
    /\ Init
    /\ Len(remote) = 1
    /\ remote[1].title = <<"A">>

\* watch_for_changes under run_continuous_monitoring, with a stop signal and
\* with callbacks that raise
SpecLoop == InitLoop /\ [][NextLoop]_vars

\* ------------------------------------------ the loop with any callback, retried
MaxRetryCycles == 3

\* callback_function(current_data) returns: watch_for_changes stores the
\* fingerprint and sleeps.  What the callback did is left out.
CallbackReturns ==
    /\ pc = "sync"
    /\ last_data_hash' = current_hash
    /\ pc' = "sleep"
    /\ slept' = CHECK_INTERVAL
    /\ UNCHANGED <<sheet, remote, mirror, current_data, current_hash,
                   shopify_products, list_status, i, counters, log, cycle,
                   callbacks, cb_arg, prev_data, hash_before, failedPrev,
                   read_ok, others>>

\* time.sleep(interval) or time.sleep(interval * 2) is over
WakeRetry ==
    /\ pc \in {"sleep", "backoff"}
    /\ cycle < MaxRetryCycles
    /\ pc' = "fetch"
    /\ UNCHANGED <<sheet, remote, mirror, last_data_hash, current_data, current_hash,
                   shopify_products, list_status, i, counters, log, cycle,
                   callbacks, cb_arg, prev_data, hash_before, failedPrev,
                   read_ok, slept, others>>

\* Somebody edits the worksheet during either sleep.
EditRetry ==
    /\ pc \in {"sleep", "backoff"}
    /\ cycle < MaxRetryCycles
    /\ sheet' \in Sheets \ {sheet}
    /\ UNCHANGED <<remote, mirror, pc, last_data_hash, current_data, current_hash,
                   shopify_products, list_status, i, counters, log, cycle,
                   callbacks, cb_arg, prev_data, hash_before, failedPrev,
                   read_ok, slept, others>>

InitRetry ==
    /\ Init
    /\ remote = <<>>

NextRetry == Poll \/ CallbackReturns \/ CallbackRaises \/ WakeRetry \/ EditRetry

\* watch_for_changes with a callback that returns or raises as it likes
SpecRetry == InitRetry /\ [][NextRetry]_vars

\* ------------------------------------------------------------ one-shot sync
DigitChar(d) ==
    CASE d = 0 -> "0" [] d = 1 -> "1" [] d = 2 -> "2" [] d = 3 -> "3"
      [] d = 4 -> "4" [] d = 5 -> "5" [] d = 6 -> "6" [] d = 7 -> "7"
      [] d = 8 -> "8" [] OTHER -> "9"

RECURSIVE Decimal(_)
Decimal(n) == IF n < 10 THEN <<DigitChar(n)>> ELSE Append(Decimal(n \div 10), DigitChar(n % 10))

\* A catalog of one entry more than a page of the listing: entries X1, X2, ...
\* fill the page and the entry for A comes last.
BigCatalog ==
    [k \in 1..(PageLimit + 1) |->
        IF k <= PageLimit
        THEN Product(k, <<"X">> \o Decimal(k), <<"c">>, <<"t">>,
                     << Variant(10 * k + 1, <<"X">> \o Decimal(k), Format2f(500), 5) >>)
        ELSE Product(k, <<"A">>, <<"c">>, <<"t">>,
                     << Variant(10 * k + 1, <<"A">>, Format2f(100), 100) >>)]

\* Everything but the sheet, the catalog, the position, the price and the
\* list handed to sync_sheets_to_shopify
InitRestButList ==
    /\ mirror = {}
    /\ last_data_hash = None
    /\ current_data = <<>>
    /\ current_hash = None
    /\ shopify_products = <<>>
    /\ list_status = "-"
    /\ i = 1
    /\ counters = ZeroCounters
    /\ log = <<>>
    /\ cycle = 0
    /\ callbacks = 0
    /\ prev_data = <<>>
    /\ hash_before = None
    /\ failedPrev = {}
    /\ read_ok = TRUE
    /\ slept = 0
    /\ stop = "-"
    /\ exit_code = None
    /\ price_out = "-"
    /\ row_errors = {}
    /\ first_pass = NoPass

\* Everything but the sheet, the catalog, the position and the price
InitRest == InitRestButList /\ cb_arg = <<>>

\* A catalog in which two entries carry the SKU A, with an entry of another
\* SKU between them; none of them has the values of a row of the sheet.
DupCatalog ==
    << Product(1, <<"A">>, <<"X">>, <<"X">>, << Variant(11, <<"A">>, Format2f(500), 5) >>),
       Product(2, <<"X">>, <<"X">>, <<"X">>, << Variant(21, <<"X">>, Format2f(500), 5) >>),
       Product(3, <<"A">>, <<"X">>, <<"X">>, << Variant(31, <<"A">>, Format2f(500), 5) >>) >>

InitOnce ==
    /\ price_in = <<>>
    /\ sheet \in Sheets
    /\ remote \in InitRemotes \cup {BigCatalog, DupCatalog}
    /\ pc = "start"
    /\ InitRest

\* run_one_time_sync up to the call of sync_sheets_to_shopify: read the sheet
\* and return False (exit code 1) when the list is empty.  An exception of
\* create_sheets_client ends the same way as a read that raised.
OneShotRead ==
    /\ pc = "start"
    /\ \E readOk \in BOOLEAN :
       \E raising \in SUBSET (1..Len(sheet)) :
        LET sheet_products == ReadProducts(sheet, readOk, raising)
        IN  /\ (~readOk => raising = {})
            /\ current_data' = sheet_products
            /\ read_ok' = readOk
            /\ row_errors' = raising
            /\ IF sheet_products = <<>>
               THEN /\ pc' = "exit"
                    /\ exit_code' = 1
                    /\ UNCHANGED <<callbacks, cb_arg>>
               ELSE /\ pc' = "sync"
                    /\ callbacks' = 1
                    /\ cb_arg' = sheet_products
                    /\ UNCHANGED exit_code
    /\ cycle' = 1
    /\ UNCHANGED <<sheet, remote, mirror, last_data_hash, current_hash,
                   shopify_products, list_status, i, counters, log,
                   prev_data, hash_before, failedPrev, slept, stop,
                   price_in, price_out, first_pass>>

\* sync_sheets_to_shopify returned its counters: run_one_time_sync prints
\* them and returns True, main calls sys.exit(0).
OneShotReturn ==
    /\ pc = "loop"
    /\ i > Len(cb_arg)
    /\ pc' = "exit"
    /\ exit_code' = 0
    /\ UNCHANGED <<sheet, remote, mirror, last_data_hash, current_data, current_hash,
                   shopify_products, list_status, i, counters, log, cycle,
                   callbacks, cb_arg, prev_data, hash_before, failedPrev,
                   read_ok, slept, stop, pure>>

NextOnce == OneShotRead \/ StartSync \/ ProcessRecord \/ OneShotReturn

\* "python main.py sync"
SpecOnce == InitOnce /\ [][NextOnce]_vars

\* ------------------------------------------------------- one-shot sync, twice
\* "python main.py sync" is started again after a run that ended: a new
\* process, with nothing but the sheet, the shop's catalog and the products
\* table left of the run before.
Rerun ==
    /\ pc = "exit"
    /\ ~first_pass.ran
    /\ first_pass' = [ran |-> TRUE, list_status |-> list_status,
                      cb_arg |-> cb_arg, log |-> log]
    /\ pc' = "start"
    /\ exit_code' = None
    /\ current_data' = <<>>
    /\ shopify_products' = <<>>
    /\ list_status' = "-"
    /\ i' = 1
    /\ counters' = ZeroCounters
    /\ log' = <<>>
    /\ cycle' = 0
    /\ callbacks' = 0
    /\ cb_arg' = <<>>
    /\ read_ok' = TRUE
    /\ row_errors' = {}
    /\ UNCHANGED <<sheet, remote, mirror, last_data_hash, current_hash,
                   prev_data, hash_before, failedPrev, slept, stop,
                   price_in, price_out>>

InitTwice ==
    /\ price_in = <<>>
    /\ sheet \in Sheets
    /\ remote \in {<<>>, BigCatalog}
    /\ pc = "start"
    /\ InitRest

NextTwice == NextOnce \/ Rerun

\* "python main.py sync", and once more right after it
SpecTwice == InitTwice /\ [][NextTwice]_vars

\* ------------------------------------------------------ the reader on its own
InitRead ==
    /\ price_in = <<>>
    /\ sheet \in SheetsRead
    /\ remote = <<>>
    /\ pc = "start"
    /\ InitRest

NextRead == OneShotRead

\* get_all_products applied to every sheet of SheetsRead
SpecRead == InitRead /\ [][NextRead]_vars

\* --------------------------------------------------------- clean_price alone
PriceChars == {"$", ",", " ", ".", "1", "5", "a"}

\* The strings clean_price is applied to: every string of PriceChars up to
\* MaxPriceLen, and the examples "$1,234.50" and "abc".
PriceInputs ==
    UNION { [1..n -> PriceChars] : n \in 0..MaxPriceLen }
    \cup { <<"$", "1", ",", "2", "3", "4", ".", "5", "0">>, <<"a", "b", "c">> }

InitPrice ==
    /\ price_in \in PriceInputs
    /\ sheet = <<>>
    /\ remote = <<>>
    /\ pc = "price"
    /\ InitRest

CleanPrice ==
    /\ pc = "price"
    /\ price_out' = clean_price_call(price_in)
    /\ pc' = "priced"
    /\ UNCHANGED <<sheet, remote, mirror, last_data_hash, current_data, current_hash,
                   shopify_products, list_status, i, counters, log, cycle,
                   callbacks, cb_arg, prev_data, hash_before, failedPrev,
                   read_ok, slept, stop, exit_code, price_in, row_errors,
                   first_pass>>

NextPrice == CleanPrice

\* clean_price applied to every string of PriceInputs
SpecPrice == InitPrice /\ [][NextPrice]_vars

\* ------------------------------------------- requests that are never answered
\* No requests.get / post / put of shopify_client passes timeout=, so a call
\* whose answer never comes does not return and does not raise.
HangPoints == {"post", "get", "put", "vput"}

\* What record i's iteration did when the request "at" is the one that is never
\* answered; the requests before it were answered with success.  The shop may
\* or may not have applied the request it does not answer.
HungRecord(sheet_product, listing, rem, at, applied) ==
    LET part_no == sheet_product.part_no
        existing == find_product_by_sku(part_no, listing)
        e0 == [NoCalls(part_no) EXCEPT !.outcome = "HUNG"]
        put == IF existing = 0 THEN rem
               ELSE RemotePutProduct(rem, listing[existing].id, part_no,
                                     sheet_product.tag, sheet_product.collection)
    IN  CASE at = "post" ->
               [remote |-> IF applied
                           THEN RemoteCreate(rem, part_no, clean_price(sheet_product.price),
                                             WeightInt(sheet_product.weight),
                                             sheet_product.tag, sheet_product.collection)
                           ELSE rem,
                entry |-> [e0 EXCEPT !.create = 1, !.createR = "hung"]]
          [] at = "get" ->
               [remote |-> rem,
                entry |-> [e0 EXCEPT !.get = 1, !.getR = "hung"]]
          [] at = "put" ->
               [remote |-> IF applied THEN put ELSE rem,
                entry |-> [e0 EXCEPT !.get = 1, !.getR = "ok",
                                     !.put = 1, !.putR = "hung"]]
          [] OTHER ->
               [remote |-> IF applied
                           THEN RemotePutVariant(put, listing[existing].variants[1].id,
                                                 part_no, clean_price(sheet_product.price),
                                                 WeightInt(sheet_product.weight))
                           ELSE put,
                entry |-> [e0 EXCEPT !.get = 1, !.getR = "ok", !.put = 1, !.putR = "ok",
                                     !.vput = 1, !.vputR = "hung"]]

\* requests.get of get_all_shopify_products is never answered
HangListing ==
    /\ pc = "sync"
    /\ pc' = "hung"
    /\ UNCHANGED <<sheet, remote, mirror, last_data_hash, current_data, current_hash,
                   shopify_products, list_status, i, counters, log, cycle,
                   callbacks, cb_arg, prev_data, hash_before, failedPrev,
                   read_ok, slept, others>>

\* A request of create_shopify_product or update_shopify_product for record i
\* is never answered.  A weight that does not parse raises before any request.
HangRecord ==
    /\ pc = "loop"
    /\ i <= Len(cb_arg)
    /\ WeightOk(cb_arg[i].weight)
    /\ \E at \in HangPoints, applied \in BOOLEAN :
        /\ (at = "post") = (find_product_by_sku(cb_arg[i].part_no, shopify_products) = 0)
        /\ (at = "post" /\ applied) => Len(remote) < MaxRemote
        /\ LET r == HungRecord(cb_arg[i], shopify_products, remote, at, applied)
           IN  /\ remote' = r.remote
               /\ log' = Append(log, r.entry)
    /\ pc' = "hung"
    /\ UNCHANGED <<sheet, mirror, last_data_hash, current_data, current_hash,
                   shopify_products, list_status, i, counters, cycle,
                   callbacks, cb_arg, prev_data, hash_before, failedPrev,
                   read_ok, slept, others>>

InitHang ==
    /\ price_in = <<>>
    /\ sheet \in Sheets
    /\ remote \in InitRemotes
    /\ pc = "start"
    /\ InitRest

NextHang == NextOnce \/ HangListing \/ HangRecord

\* The step of ProcessRecord as the loop counter shows it: the "for" loop of
\* sync_sheets_to_shopify goes on to the record after i.
NextRecord ==
    /\ pc = "loop"
    /\ i <= Len(cb_arg)
    /\ i' = i + 1

\* "python main.py sync" against a shop that may stop answering.  The process
\* is sequential and nothing but a blocked call holds it: it reads, lists,
\* goes on to the next record and returns whenever it can.  The shop is under
\* no obligation, neither to answer nor to stay silent.
SpecHang ==
    /\ InitHang
    /\ [][NextHang]_vars
    /\ WF_vars(OneShotRead \/ StartSync \/ OneShotReturn)
    /\ WF_i(NextRecord)

\* ------------------------------------------- sync_sheets_to_shopify on any list
\* Records as a caller may pass them: with a part_no, with an empty one, and
\* without the key.
RecordsPass ==
    { [part_no |-> <<"A">>, price |-> <<"$", "1">>, weight |-> <<"1", "0", "0">>,
       tag |-> <<"t">>, collection |-> <<"c">>],
      [part_no |-> <<"B">>, price |-> <<>>, weight |-> <<"5", "0">>,
       tag |-> <<"t">>, collection |-> <<"c">>],
      [part_no |-> <<>>, price |-> <<"$", "1">>, weight |-> <<"1", "0", "0">>,
       tag |-> <<"t">>, collection |-> <<"c">>],
      [price |-> <<"$", "1">>, weight |-> <<"1", "0", "0">>,
       tag |-> <<"t">>, collection |-> <<"c">>] }

RecordLists == UNION { [1..n -> RecordsPass] : n \in 0..MaxRows }

InitPass ==
    /\ price_in = <<>>
    /\ sheet = <<>>
    /\ remote \in InitRemotes
    /\ pc = "sync"
    /\ InitRestButList
    /\ cb_arg \in RecordLists

\* sync_sheets_to_shopify returns its counters to whoever called it
ReturnCounters ==
    /\ pc = "loop"
    /\ i > Len(cb_arg)
    /\ pc' = "returned"
    /\ UNCHANGED <<sheet, remote, mirror, last_data_hash, current_data, current_hash,
                   shopify_products, list_status, i, counters, log, cycle,
                   callbacks, cb_arg, prev_data, hash_before, failedPrev,
                   read_ok, slept, others>>

NextPass == StartSync \/ ProcessRecord \/ ReturnCounters

\* One call of sync_sheets_to_shopify with a list of RecordLists
SpecPass == InitPass /\ [][NextPass]_vars

\* ------------------------------------------------------------------- claims
NoWrites(e) == e.create = 0 /\ e.put = 0 /\ e.vput = 0 /\ e.upsert = 0

InPass == pc \in {"loop", "sleep"} /\ callbacks = 1

\* C1: if the listing of the remote catalog could not be fetched (any status
\* but 200, or an exception), the pass issues no create, no update and no
\* mirror upsert.
C1_NoWritesAfterFailedListing ==
    (InPass /\ list_status # "200") => \A k \in 1..Len(log) : NoWrites(log[k])

\* C2: a poll cycle that reads the same records as the cycle before it does
\* not invoke the callback and sends no request.
C2_SameSnapshotIsNoOp ==
    (cycle >= 2 /\ current_data = prev_data)
        => callbacks = 0 /\ list_status = "-" /\ log = <<>>

C2_Witness ==
    /\ cycle = 2 /\ pc = "sleep" /\ current_data = prev_data
    /\ Len(current_data) = 2 /\ failedPrev = {} /\ callbacks = 0

\* C3: a record that ended FAILED in a cycle is processed again in the next
\* cycle when the snapshot is unchanged, and no record is attempted twice in
\* one cycle.
C3_FailedIsRetriedNextCycle ==
    /\ (cycle >= 2 /\ pc = "sleep" /\ current_data = prev_data)
          => \A p \in failedPrev : \E k \in 1..Len(log) : log[k].part_no = p
    /\ \A k \in 1..Len(log) : log[k].create <= 1 /\ log[k].put <= 1 /\ log[k].vput <= 1

\* C4: a record with a part_no that no SKU of the listing matches gets exactly
\* one create request, and is counted as created when the request succeeds.
C4_AbsentSkuOneCreate ==
    InPass => \A k \in 1..Len(log) :
        (cb_arg[k].part_no # <<>>
            /\ find_product_by_sku(cb_arg[k].part_no, shopify_products) = 0)
        => /\ log[k].create = 1
           /\ (log[k].createR = "ok" => log[k].outcome = "CREATE")

\* C5: a record whose part_no matches a SKU of the listing gets exactly one
\* product update and one variant update, and is counted as updated when both
\* succeed.
C5_PresentSkuTwoUpdates ==
    InPass => \A k \in 1..Len(log) :
        find_product_by_sku(cb_arg[k].part_no, shopify_products) # 0
        => /\ log[k].put = 1 /\ log[k].vput = 1
           /\ ((log[k].putR = "ok" /\ log[k].vputR = "ok") => log[k].outcome = "UPDATE")

CountOutcome(l, o) == Cardinality({ k \in 1..Len(l) : l[k].outcome = o })

\* C6: a pass processes every record whatever happened to the ones before it:
\* the counters always add up to the number of records processed, and to the
\* length of the input when the pass returns.
C6_EveryRecordGetsOneOutcome ==
    InPass =>
        /\ counters.created + counters.updated + counters.failed + counters.skipped
              = Len(log)
        /\ counters.created = CountOutcome(log, "CREATE")
        /\ counters.updated = CountOutcome(log, "UPDATE")
        /\ counters.failed = CountOutcome(log, "FAILED")
        /\ counters.skipped = CountOutcome(log, "SKIP")
        /\ Len(log) = i - 1
        /\ (pc = "sleep" => Len(log) = Len(cb_arg))

C6_Witness ==
    /\ pc = "sleep" /\ callbacks = 1 /\ Len(cb_arg) = 2
    /\ log[1].outcome = "FAILED" /\ log[1].createR = "exc"
    /\ log[2].outcome = "CREATE"

AnsweredBad(r) == r \in {"err", "exc"}

\* C7: when the create, the variant-id read, the product update or the variant
\* update of a record fails, the record ends FAILED and the mirror is left as
\* it was.
C7_NoUpsertOnFailure ==
    [][ Len(log') = Len(log) + 1 =>
          LET e == log'[Len(log')]
          IN  (AnsweredBad(e.createR) \/ AnsweredBad(e.getR)
                 \/ AnsweredBad(e.putR) \/ AnsweredBad(e.vputR))
              => e.outcome = "FAILED" /\ e.save = 0 /\ e.upsert = 0 /\ mirror' = mirror
      ]_vars

C7_Witness ==
    /\ Len(log) = 2
    /\ log[1].outcome = "CREATE" /\ log[1].upsert = 1
    /\ log[2].vputR = "err" /\ log[2].outcome = "FAILED"

Fields(r) == <<r.part_no, r.price, r.weight, r.tag, r.collection>>

Occurrences(x, s) == Cardinality({ k \in 1..Len(s) : Fields(s[k]) = x })

\* The same records in the same rows, in another order
Reordered(d1, d2) ==
    /\ Len(d1) = Len(d2)
    /\ d1 # d2
    /\ \A k \in 1..Len(d1) : Occurrences(Fields(d1[k]), d1) = Occurrences(Fields(d1[k]), d2)
    /\ { d1[k].row_number : k \in 1..Len(d1) } = { d2[k].row_number : k \in 1..Len(d2) }

\* C8: the fingerprint does not depend on the order of the rows: a snapshot
\* that holds the records of the one before in another order has the same
\* fingerprint and triggers no reconciliation.
C8_FingerprintIgnoresRowOrder ==
    (cycle >= 2 /\ Reordered(prev_data, current_data))
        => current_hash = hash_before /\ callbacks = 0

\* C9: the first cycle invokes the callback exactly once, with the list that
\* was read, whatever the list is.
C9_FirstCycleAlwaysSyncs ==
    cycle = 1 =>
        /\ callbacks = 1
        /\ cb_arg = current_data
        /\ (pc \in {"sync", "loop"}
              => cb_arg \in {get_all_products(sheet, TRUE), get_all_products(sheet, FALSE)})

C9_Witness == cycle = 1 /\ pc = "sleep" /\ callbacks = 1 /\ cb_arg = <<>> /\ sheet # <<>>

\* C10: in a later cycle whose fingerprint differs from the stored one, the
\* callback is invoked exactly once with every record read, and the stored
\* fingerprint is the current one once the cycle is over.
C10_ChangedFingerprintSyncsAll ==
    (cycle >= 2 /\ current_hash # hash_before) =>
        /\ callbacks = 1
        /\ cb_arg = current_data
        /\ (pc \in {"sync", "loop"}
              => cb_arg \in {get_all_products(sheet, TRUE), get_all_products(sheet, FALSE)})
        /\ (pc \in {"sleep", "fetch"} => last_data_hash = current_hash)

C10_Witness ==
    /\ cycle = 2 /\ pc = "sleep" /\ current_hash # hash_before
    /\ Len(cb_arg) = 2 /\ Len(log) = 2 /\ last_data_hash = current_hash

\* An exception was raised while the cycle fetched or reconciled: the read of
\* the worksheet raised, or the listing request or a request of a record did.
RaisedInCycle ==
    \/ ~read_ok
    \/ list_status = "exc"
    \/ \E k \in 1..Len(log) :
          "exc" \in {log[k].createR, log[k].getR, log[k].putR, log[k].vputR}

\* C11: after a cycle in which the fetch or the reconciliation raised, the
\* loop goes on and waits at least twice the normal interval before the next
\* fetch.
C11_BackoffAfterException ==
    (pc = "sleep" /\ cycle >= 1 /\ RaisedInCycle) => slept >= 2 * CHECK_INTERVAL

\* C12: a failed read of the source is distinguishable from a source without
\* rows, invokes no callback and no remote call, and puts the loop into the
\* backoff wait.
C12_FailedReadAbortsCycle ==
    (cycle >= 1 /\ ~read_ok) =>
        /\ current_data # get_all_products(<<>>, TRUE)
        /\ callbacks = 0
        /\ list_status = "-"
        /\ (pc = "sleep" => slept >= 2 * CHECK_INTERVAL)

\* C13: a KeyboardInterrupt that arrives while the loop sleeps, in the normal
\* wait or in the backoff wait, ends watch_for_changes at once: no further
\* fetch, no further callback, and nothing happens afterwards.
C13_StopWhileSleepingExits ==
    /\ [][ (pc \in {"sleep", "backoff"} /\ stop' # stop)
             => /\ pc' = "stopped"
                /\ UNCHANGED <<cycle, callbacks, log, remote, mirror, last_data_hash>>
        ]_vars
    /\ [][ pc # "stopped" ]_vars

C13_Witness ==
    pc = "stopped" /\ stop = "backoff" /\ cycle = 2 /\ callbacks = 1 /\ Len(cb_arg) = 2

HalfDone(e) ==
    \/ e.put = 1 /\ e.putR = "ok" /\ e.vput = 0
    \/ e.create = 1 /\ e.createR = "ok" /\ e.save = 0

\* C14: a stop signal is only observed between cycles: the loop never stops
\* inside a pass, and no record is left with its product updated but not its
\* variant, or created remotely without the rest of its processing.
C14_StopOnlyBetweenCycles ==
    pc = "stopped" =>
        /\ stop \in {"sleep", "backoff"}
        /\ \A k \in 1..Len(log) : ~HalfDone(log[k])

\* C15: a fetch only starts when the pass of the cycle before is over (every
\* record of the callback's list was processed), and a cycle never has more
\* than one pass.
C15_CyclesAreSequential ==
    /\ callbacks <= 1
    /\ (pc = "fetch" /\ callbacks = 1)
          => list_status # "-" /\ i = Len(cb_arg) + 1 /\ Len(log) = Len(cb_arg)

C15_Witness ==
    /\ pc = "fetch" /\ cycle = 1 /\ callbacks = 1
    /\ Len(cb_arg) = 2 /\ Len(log) = 2

\* C16: the one-shot sync exits with 0 only when its cycle ran: the source
\* gave records and the listing of the remote catalog was fetched.
C16_ExitZeroOnlyAfterSuccess ==
    exit_code = 0 => current_data # <<>> /\ list_status = "200"

ValidRow(k) == Strip(sheet[k].part_no) # <<>> /\ k \notin row_errors

\* C17: the list get_all_products returns holds no record with an empty
\* part_no, and holds every row with a part_no whose processing did not
\* raise, once, stripped, in the order of the sheet, whatever the other rows
\* are.
C17_InvalidRowsDoNotAbortBatch ==
    (pc # "start" /\ read_ok) =>
        /\ \A j \in 1..Len(current_data) :
              /\ current_data[j].part_no # <<>>
              /\ current_data[j].row_number - 1 \in 1..Len(sheet)
              /\ ValidRow(current_data[j].row_number - 1)
        /\ \A k \in 1..Len(sheet) :
              ValidRow(k) => \E j \in 1..Len(current_data) :
                               /\ current_data[j].row_number = k + 1
                               /\ current_data[j].part_no = Strip(sheet[k].part_no)
        /\ \A j1, j2 \in 1..Len(current_data) :
              j1 < j2 => current_data[j1].row_number < current_data[j2].row_number

C17_Witness ==
    /\ pc # "start" /\ read_ok /\ Len(sheet) = 3
    /\ sheet[1].part_no = <<" ", "B", " ">>
    /\ sheet[2].part_no = <<" ">>
    /\ sheet[3].part_no = <<"A">>
    /\ row_errors = {}
    /\ Len(current_data) = 2
    /\ current_data[1].part_no = <<"B">> /\ current_data[2].part_no = <<"A">>

\* C18: a row whose weight does not parse as a number is rejected by the
\* reader: it is not in the list get_all_products returns and is never handed
\* to the reconciler.
C18_UnparsableWeightRejected ==
    /\ \A k \in 1..Len(current_data) : WeightOk(current_data[k].weight)
    /\ \A k \in 1..Len(cb_arg) : WeightOk(cb_arg[k].weight)

\* C20: the listing a pass works with holds every entry of the remote
\* catalog, so a part_no that some remote entry carries as SKU is found.
C20_ListingIsComplete ==
    (pc = "loop" /\ i = 1 /\ list_status = "200") =>
        /\ shopify_products = remote
        /\ \A k \in 1..Len(cb_arg) :
              (\E p \in 1..Len(remote) : HasSku(remote[p], cb_arg[k].part_no))
                 => find_product_by_sku(cb_arg[k].part_no, shopify_products) # 0

\* The characters clean_price is meant to drop
Kept(p) == SelectSeq(p, LAMBDA c : c \notin {",", " ", "$"})

DotsIn(t) == { k \in 1..Len(t) : t[k] = "." }

\* A decimal number: digits with at most one point, at least one digit
IsNumber(t) ==
    /\ \A k \in 1..Len(t) : t[k] \in Digits \cup {"."}
    /\ Cardinality(DotsIn(t)) <= 1
    /\ \E k \in 1..Len(t) : t[k] \in Digits

PointOf(t) == IF DotsIn(t) = {} THEN Len(t) + 1 ELSE CHOOSE k \in DotsIn(t) : TRUE

RECURSIVE Pow10(_)
Pow10(n) == IF n = 0 THEN 1 ELSE 10 * Pow10(n - 1)

\* Value in hundredths of the digit at place k of a number with its point at d
PlaceValue(t, k, d) ==
    IF k < d THEN DigitVal(t[k]) * 100 * Pow10(d - 1 - k)
    ELSE IF k = d \/ k - d > 2 THEN 0
    ELSE DigitVal(t[k]) * Pow10(2 - (k - d))

RECURSIVE SumPlaces(_, _)
SumPlaces(t, k) ==
    IF k > Len(t) THEN 0 ELSE PlaceValue(t, k, PointOf(t)) + SumPlaces(t, k + 1)

RemoteCalls(e) ==
    <<e.outcome, e.create, e.createR, e.get, e.getR, e.put, e.putR, e.vput, e.vputR>>

\* Other contents the mirror may have when a record is processed
OtherMirrors ==
    { {},
      { [part_no |-> <<"A">>, price |-> 100, weight |-> 100, tag |-> <<"t">>,
         collection |-> <<"c">>, shopify_id |-> 99] },
      { [part_no |-> <<"B">>, price |-> 0, weight |-> 50, tag |-> <<"t">>,
         collection |-> <<"c">>, shopify_id |-> 1] } }

\* C21: what a pass does for a record (its requests, the catalog after them,
\* its outcome and the counters) is the same whatever the mirror holds and
\* whether the database answers or not.
C21_DecisionIgnoresMirror ==
    [][ (pc = "loop" /\ Len(log') = Len(log) + 1) =>
          LET e == log'[Len(log')]
          IN  \A mir2 \in OtherMirrors : \A d \in BOOLEAN :
                LET r == SyncOne(cb_arg[i], shopify_products, remote, mir2,
                                 e.createR, e.getR, e.putR, e.vputR, d)
                IN  /\ r.remote = remote'
                    /\ RemoteCalls(r.entry) = RemoteCalls(e)
                    /\ Bump(counters, r.entry.outcome) = counters'
      ]_vars

C21_Witness ==
    /\ Len(log) = 2 /\ mirror # {}
    /\ log[1].outcome = "CREATE" /\ log[1].upsert = 1
    /\ log[2].part_no = log[1].part_no
    /\ log[2].outcome = "CREATE" /\ log[2].upsert = 1

\* C22: a record counted as created or updated has had its mirror upsert
\* take effect, and right after it the mirror holds a row for its part_no.
C22_CountedMeansMirrored ==
    [][ (pc = "loop" /\ Len(log') = Len(log) + 1) =>
          LET e == log'[Len(log')]
          IN  e.outcome \in {"CREATE", "UPDATE"}
                => /\ e.upsert = 1
                   /\ \E m \in mirror' : m.part_no = e.part_no
      ]_vars

\* C27: a pass sends at most one create request per part_no.
C27_OneCreatePerPartNo ==
    \A k1, k2 \in 1..Len(log) :
        (k1 < k2 /\ log[k1].part_no = log[k2].part_no)
            => ~(log[k1].create = 1 /\ log[k2].create = 1)

\* C28: the step of a record that ends FAILED leaves the remote catalog as it
\* was.
C28_FailedLeavesRemoteUnchanged ==
    [][ (pc = "loop" /\ Len(log') = Len(log) + 1 /\ log'[Len(log')].outcome = "FAILED")
          => remote' = remote
      ]_vars

\* C29: an update only writes to variants whose SKU is the record's part_no:
\* every other variant of every entry is left as it was.
C29_OnlyMatchedVariantWritten ==
    [][ (pc = "loop" /\ Len(log') = Len(log) + 1 /\ log'[Len(log')].vput = 1)
          => /\ Len(remote') = Len(remote)
             /\ \A k \in 1..Len(remote) :
                  /\ Len(remote'[k].variants) = Len(remote[k].variants)
                  /\ \A v \in 1..Len(remote[k].variants) :
                        remote[k].variants[v].sku # log'[Len(log')].part_no
                           => remote'[k].variants[v] = remote[k].variants[v]
      ]_vars

\* C30: a cycle whose read failed does not invoke the callback and leaves the
\* stored fingerprint as it was.
C30_FailedReadKeepsFingerprint ==
    (cycle >= 2 /\ ~read_ok /\ pc \in {"sync", "loop", "sleep"})
        => callbacks = 0 /\ last_data_hash = hash_before

\* Some record of the pass has this part_no as the SKU of a variant of entry p
Targeted(p) == \E k \in 1..Len(cb_arg) : HasSku(p, cb_arg[k].part_no)

\* C24: no step of a pass removes an entry of the remote catalog or changes
\* an entry none of whose SKUs is the part_no of a record of the pass; the
\* catalog only grows, at its end.
C24_UntargetedEntriesUnchanged ==
    [][ pc = "loop" =>
          /\ Len(remote') >= Len(remote)
          /\ \A k \in 1..Len(remote) :
                /\ remote'[k].id = remote[k].id
                /\ (~Targeted(remote[k]) => remote'[k] = remote[k])
      ]_vars

C24_Witness ==
    /\ pc = "exit" /\ Len(remote) = 3 /\ Len(log) = 2
    /\ log[1].outcome = "UPDATE" /\ log[2].outcome = "UPDATE"
    /\ remote[1].tags = <<"t">> /\ remote[2].tags = <<"X">>

\* The first entry of a listing with a variant of that SKU
FirstWithSku(sku, listing) ==
    CHOOSE k \in 1..Len(listing) :
        HasSku(listing[k], sku) /\ \A j \in 1..(k - 1) : ~HasSku(listing[j], sku)

\* C25: when the listing holds several entries with the SKU of a record, the
\* update is applied to the first of them in listing order and every other
\* entry stays as it was.
C25_FirstDuplicateIsUpdated ==
    [][ (pc = "loop" /\ Len(log') = Len(log) + 1 /\ log'[Len(log')].putR = "ok") =>
          LET part_no == log'[Len(log')].part_no
              first == shopify_products[FirstWithSku(part_no, shopify_products)].id
          IN  \A k \in 1..Len(remote) :
                IF remote[k].id = first
                THEN remote'[k].title = part_no
                ELSE remote'[k] = remote[k]
      ]_vars

C25_Witness ==
    /\ pc = "exit" /\ Len(remote) = 3 /\ Len(log) = 1
    /\ log[1].outcome = "UPDATE" /\ log[1].part_no = <<"A">>
    /\ remote[1].tags = <<"t">> /\ remote[1].variants[1].weight = 100
    /\ remote[3].tags = <<"X">> /\ remote[3].variants[1].weight = 5

\* C26: a record whose part_no is empty or missing is skipped: its step adds
\* one to the skipped counter only, sends no request, writes no mirror row and
\* leaves the catalog as it was.
C26_EmptyPartNoIsSkipped ==
    [][ (pc = "loop" /\ Len(log') = Len(log) + 1
           /\ ("part_no" \notin DOMAIN cb_arg[i] \/ cb_arg[i].part_no = <<>>))
          => /\ log'[Len(log')].outcome = "SKIP"
             /\ NoWrites(log'[Len(log')]) /\ log'[Len(log')].get = 0
             /\ log'[Len(log')].save = 0
             /\ counters' = [counters EXCEPT !.skipped = @ + 1]
             /\ remote' = remote /\ mirror' = mirror
      ]_vars

C26_Witness ==
    /\ pc = "returned" /\ Len(cb_arg) = 2
    /\ "part_no" \notin DOMAIN cb_arg[1]
    /\ "part_no" \in DOMAIN cb_arg[2] /\ cb_arg[2].part_no = <<"A">>
    /\ counters = [created |-> 1, updated |-> 0, failed |-> 0, skipped |-> 1]

\* C23: a pass that was started completes, whatever the shop does: every
\* request returns within a bounded time, so run_one_time_sync reaches its exit.
C23_PassEventuallyCompletes == (pc = "sync") ~> (pc = "exit")

\* The read that follows a cycle whose callback raised: the handler's sleep of
\* twice the interval is the last one the loop took.
PollAfterRaise == pc = "fetch" /\ slept = CHECK_INTERVAL * 2 /\ cycle' = cycle + 1

\* The stored fingerprint is not advanced in a cycle whose callback raises.
RaiseKeepsFingerprint ==
    (pc = "sync" /\ pc' = "backoff") => last_data_hash' = last_data_hash

RetriedWithCurrentRecords ==
    /\ pc' = "sync"
    /\ callbacks' = 1
    /\ cb_arg' = current_data'

\* C31 as stated: a callback that raises leaves the stored fingerprint as it
\* was, and the next cycle invokes the callback again with the current records.
C31_RaiseIsRetriedNextCycle ==
    [][ /\ RaiseKeepsFingerprint
        /\ PollAfterRaise => RetriedWithCurrentRecords ]_vars

\* What the loop does after a callback raised: the stored fingerprint is as it
\* was; the next cycle invokes the callback again with the current records
\* when no fingerprint is stored or the records it reads are those of the
\* raising cycle, and does not invoke it when the records have gone back to
\* those whose fingerprint is stored.
RaiseIsRetriedUnlessReverted ==
    [][ /\ RaiseKeepsFingerprint
        /\ (PollAfterRaise /\ (last_data_hash = None \/ current_data' = current_data))
              => RetriedWithCurrentRecords
        /\ (PollAfterRaise /\ last_data_hash # None
               /\ Fingerprint(current_data') = last_data_hash)
              => (pc' = "sleep" /\ callbacks' = 0) ]_vars

\* A third cycle that retries, with a fingerprint stored and the sheet untouched
RetryWitness ==
    /\ cycle = 3 /\ pc = "sync" /\ slept = CHECK_INTERVAL * 2
    /\ hash_before # None
    /\ current_data = prev_data /\ current_data # <<>>
    /\ cb_arg = current_data /\ callbacks = 1

\* Every request of a finished pass was sent and answered with success: the
\* listing came back 200 and every record ended CREATE or UPDATE.
AllCallsSucceeded(status, records, entries) ==
    /\ status = "200"
    /\ Len(entries) = Len(records)
    /\ \A k \in 1..Len(entries) : entries[k].outcome \in {"CREATE", "UPDATE"}

\* The second run has finished a pass over the records of the first, with a
\* listing that came back 200.
SecondPassOverSameRecords ==
    /\ first_pass.ran /\ pc = "exit" /\ exit_code = 0
    /\ list_status = "200"
    /\ cb_arg = first_pass.cb_arg

\* C32: after a pass in which every remote call succeeded, the pass that
\* follows over the same records sends no create: every record takes the
\* UPDATE path.
C32_SecondPassCreatesNothing ==
    (SecondPassOverSameRecords
       /\ AllCallsSucceeded(first_pass.list_status, first_pass.cb_arg, first_pass.log))
      => \A k \in 1..Len(log) : log[k].create = 0 /\ log[k].get = 1

\* The same for a catalog that fits in one page of the listing
SecondPassCreatesNothingWithinPage ==
    (SecondPassOverSameRecords /\ Len(remote) <= PageLimit
       /\ AllCallsSucceeded(first_pass.list_status, first_pass.cb_arg, first_pass.log))
      => \A k \in 1..Len(log) : log[k].create = 0 /\ log[k].get = 1

\* Two runs in a row over two rows, the first of which created both
SecondPassWitness ==
    /\ SecondPassOverSameRecords /\ Len(remote) = 2 /\ Len(cb_arg) = 2
    /\ AllCallsSucceeded(first_pass.list_status, first_pass.cb_arg, first_pass.log)
    /\ \A k \in 1..2 : first_pass.log[k].create = 1
    /\ \A k \in 1..2 : log[k].outcome = "UPDATE"

=============================================================================
